---- MODULE Spec2Model ----
(***************************************************************************)
(* Model of the gin middleware pair of src/main.go: GinLogger (the         *)
(* RequestLogger of the specification) and GinRecovery (FaultRecovery),    *)
(* composed as mainDemo4 registers them, run by one goroutine per          *)
(* in-flight request and writing to one shared zap logger.                 *)
(*                                                                         *)
(* Go values that can be raised by panic() are records with a "kind".      *)
(* Text is modelled by TLA+ strings, which TLC treats as sequences of      *)
(* characters (Len, \o and SubSeq apply to them).                          *)
(***************************************************************************)
EXTENDS Integers, Sequences, FiniteSets, TLC

VARIABLES
    stack,      \* the construction-time flag of GinRecovery (line 194)
    clock,      \* the monotonic clock read by time.Now / time.Since
    nextId,     \* number of requests admitted so far
    ctx,        \* worker -> the gin.Context (and the locals) of its request
    log,        \* the entries emitted to the zap logger, in emission order
    served      \* request id -> what the serving loop saw when the chain ended

vars == <<stack, clock, nextId, ctx, log, served>>

\* ----------------------------------------------------------------- bounds
NumWorkers == 2
MaxRequests == 2
MaxClock == 2

Workers == 1..NumWorkers

\* gin's abortIndex, the value c.Abort() stores in c.index
abortIndex == 63
\* gin's default status of a response writer, what c.Writer.Status() returns
\* before anything was set
defaultStatus == 200
\* http.StatusInternalServerError
StatusInternalServerError == 500

\* ------------------------------------------------------------------- text
\* strings.ToLower, on the letters
LowerChar(c) ==
    CASE c = "A" -> "a" [] c = "B" -> "b" [] c = "C" -> "c" [] c = "D" -> "d"
      [] c = "E" -> "e" [] c = "F" -> "f" [] c = "G" -> "g" [] c = "H" -> "h"
      [] c = "I" -> "i" [] c = "J" -> "j" [] c = "K" -> "k" [] c = "L" -> "l"
      [] c = "M" -> "m" [] c = "N" -> "n" [] c = "O" -> "o" [] c = "P" -> "p"
      [] c = "Q" -> "q" [] c = "R" -> "r" [] c = "S" -> "s" [] c = "T" -> "t"
      [] c = "U" -> "u" [] c = "V" -> "v" [] c = "W" -> "w" [] c = "X" -> "x"
      [] c = "Y" -> "y" [] c = "Z" -> "z" [] OTHER -> c

RECURSIVE ToLower(_)
ToLower(s) ==
    IF Len(s) = 0 THEN ""
    ELSE LowerChar(SubSeq(s, 1, 1)) \o ToLower(SubSeq(s, 2, Len(s)))

\* strings.Contains
Contains(s, substr) ==
    \E i \in 1..(Len(s) - Len(substr) + 1) :
        SubSeq(s, i, i + Len(substr) - 1) = substr

\* ------------------------------------------------------------- Go values
\* no panic in flight
NoPanic == [kind |-> "none"]
\* the untyped nil, as in panic(nil)
NilValue == [kind |-> "nil"]
\* what recover() returns for panic(nil) on Go >= 1.21
PanicNilError == [kind |-> "PanicNilError"]
StringValue(s) == [kind |-> "string", s |-> s]
\* errors.New(msg)
ErrorString(msg) == [kind |-> "errorString", msg |-> msg]
\* syscall.Errno, by its message
Errno(msg) == [kind |-> "Errno", msg |-> msg]
\* &os.SyscallError{Syscall: sc, Err: err}
SyscallError(sc, err) == [kind |-> "SyscallError", isNil |-> FALSE, Syscall |-> sc, Err |-> err]
\* (*os.SyscallError)(nil)
NilSyscallError == [kind |-> "SyscallError", isNil |-> TRUE]
\* &net.OpError{Op: op, Err: err}
OpError(op, err) == [kind |-> "OpError", isNil |-> FALSE, Op |-> op, Err |-> err]
\* (*net.OpError)(nil)
NilOpError == [kind |-> "OpError", isNil |-> TRUE]

\* the types that implement the error interface
IsError(v) == v.kind \in {"errorString", "Errno", "SyscallError", "OpError", "PanicNilError"}

\* The result of a call of v.Error(): the text, or a fault (a nil pointer
\* dereference) in place of it.
Text(s) == [fault |-> FALSE, s |-> s]
Fault == [fault |-> TRUE, s |-> ""]

RECURSIVE ErrorText(_)
ErrorText(e) ==
    CASE e.kind = "errorString" -> Text(e.msg)
      [] e.kind = "Errno" -> Text(e.msg)
      [] e.kind = "PanicNilError" -> Text("panic called with nil argument")
      [] e.kind = "SyscallError" ->
            \* func (e *SyscallError) Error() string { return e.Syscall + ": " + e.Err.Error() }
            IF e.isNil \/ e.Err.kind = "nil" THEN Fault
            ELSE LET inner == ErrorText(e.Err)
                 IN  IF inner.fault THEN Fault ELSE Text(e.Syscall \o ": " \o inner.s)
      [] e.kind = "OpError" ->
            \* net.OpError.Error answers "<nil>" for a nil receiver
            IF e.isNil THEN Text("<nil>")
            ELSE IF e.Err.kind = "nil" THEN Fault
            ELSE LET inner == ErrorText(e.Err)
                 IN  IF inner.fault THEN Fault ELSE Text(e.Op \o ": " \o inner.s)
      [] OTHER -> Fault

\* ---------------------------------------------------------------- requests
\* What the host hands to the chain: the *http.Request behind c.Request.
Request(method, path, query, ip, ua) ==
    [method |-> method, path |-> path, query |-> query, ip |-> ip, ua |-> ua]

Requests ==
    { Request("GET", "/hello", "", "10.0.0.1", "curl"),
      Request("POST", "/upload", "id=7", "10.0.0.2", "Go-http-client"),
      Request("GET", "/boom", "", "10.0.0.3", "curl"),
      Request("GET", "/lookup", "q=x", "10.0.0.4", "Mozilla"),
      Request("GET", "/stream", "", "10.0.0.5", "Mozilla"),
      Request("POST", "/proxy", "", "10.0.0.6", "Go-http-client") }

\* The values a handler may raise.
BrokenPipeError   == OpError("write", SyscallError("write", Errno("broken pipe")))
ResetError        == OpError("read", SyscallError("read", Errno("connection reset by peer")))
UpperCaseError    == OpError("write", SyscallError("write", Errno("Broken Pipe")))
RefusedError      == OpError("dial", SyscallError("connect", Errno("connection refused")))
NonSyscallError   == OpError("write", ErrorString("broken pipe"))
NoCauseError      == OpError("write", NilValue)
NilCauseError     == OpError("write", NilSyscallError)
EmptySyscallError == OpError("write", SyscallError("write", NilValue))

RaisedValues ==
    { StringValue("boom"), ErrorString("broken pipe"), ErrorString("invalid id"),
      BrokenPipeError, ResetError, UpperCaseError, RefusedError, NonSyscallError,
      NoCauseError, NilCauseError, EmptySyscallError, NilOpError, NilValue }

\* What a handler does with the context before it returns or panics:
\*   write   - "none", "Status" (c.Status(404)) or "String" (c.String(200, "hello!"))
\*   addErr  - whether it calls c.Error(...)
\*   rewrite - whether it changes c.Request.URL
\*   raise   - NoPanic when it returns, else the value it panics with
Behaviour(write, addErr, rewrite, raise) ==
    [write |-> write, addErr |-> addErr, rewrite |-> rewrite, raise |-> raise]

AllBehaviours ==
    { Behaviour(wr, ae, rw, r) :
        wr \in {"none", "Status", "String"}, ae \in BOOLEAN, rw \in BOOLEAN,
        r \in RaisedValues \cup {NoPanic} }

\* The handler registered for each path (r.GET at line 160 registers the
\* first), one for each way through the chain: what runs when several
\* requests are served.
Routes(path) ==
    CASE path = "/hello"  -> Behaviour("String", FALSE, FALSE, NoPanic)
      [] path = "/upload" -> Behaviour("Status", TRUE, FALSE, NoPanic)
      [] path = "/boom"   -> Behaviour("none", FALSE, FALSE, StringValue("boom"))
      [] path = "/lookup" -> Behaviour("String", FALSE, FALSE, ErrorString("broken pipe"))
      [] path = "/stream" -> Behaviour("String", TRUE, FALSE, BrokenPipeError)
      [] OTHER            -> Behaviour("none", FALSE, FALSE, NilOpError)

\* the error a handler records with c.Error
HandlerError == ErrorString("invalid id")

\* ----------------------------------------------------------- gin.Context
\* Chain with the two interceptors registered the other way round
RecoveryFirstChain == <<"GinRecovery", "GinLogger", "handler">>

\* The chain mainDemo4 builds for GET /hello: r.Use(GinLogger, GinRecovery),
\* then the route handler (lines 159-162).
Chain == <<"GinLogger", "GinRecovery", "handler">>

\* The chain of a route registered with a second handler after the first,
\* r.GET(path, first, second), behind the same two interceptors.
TwoHandlerChain == Chain \o <<"handler">>

\* timed: GinLogger has read the clock into start; guard: "none", "armed"
\* (the deferred function of GinRecovery is installed) or "closed" (it has
\* run); panic: the value of the panic in flight; raised, orig and atExit
\* keep what the handler raised, the request as admitted and the response
\* as the handler left it.
\* frames: the positions in Chain of the handlers now on the goroutine's
\* stack, innermost last; pc: "enter" (the innermost is about to run),
\* "post" (its c.Next() has returned, or the chain has) or "panic" (a panic
\* is unwinding into it).
\* chain: the handlers of the request's route (c.handlers). arms, runs and
\* handled count how often the deferred function was installed, how often
\* the body of "if err != nil" (line 197) was entered, and how many route
\* handlers ran; dump: "none", or whether DumpRequest at line 209 gave
\* "ok" or "failed".
IdleCtx ==
    [pc |-> "idle", id |-> 0, frames |-> <<>>, index |-> -1,
     req |-> [method |-> "", path |-> "", query |-> "", ip |-> "", ua |-> ""],
     status |-> 0, written |-> FALSE, body |-> "", errors |-> <<>>,
     timed |-> FALSE, start |-> 0, path |-> "", query |-> "", guard |-> "none",
     panic |-> NoPanic, raised |-> NoPanic, class |-> "none",
     orig |-> <<>>, atExit |-> <<>>,
     chain |-> <<>>, arms |-> 0, runs |-> 0, handled |-> 0, dump |-> "none"]

\* c.Next(): index++, then the handler at the index runs, unless the chain
\* is exhausted or aborted
Next_(c) ==
    LET i == c.index + 1
    IN  IF i < Len(c.chain)
        THEN [c EXCEPT !.index = i, !.frames = Append(@, i + 1), !.pc = "enter"]
        ELSE [c EXCEPT !.index = i, !.pc = "post"]

\* The innermost handler returns: its caller's c.Next() goes on.
Return(c) == Next_([c EXCEPT !.frames = SubSeq(@, 1, Len(@) - 1)])

\* The handler that is running
Top(c) == IF c.frames = <<>> THEN "host" ELSE c.chain[c.frames[Len(c.frames)]]

\* A panic leaves the innermost handler and unwinds the callers without a
\* deferred function: it stops at GinRecovery, or leaves the chain.
RECURSIVE Unwind(_, _)
Unwind(chain, frames) ==
    IF frames = <<>> \/ chain[frames[Len(frames)]] = "GinRecovery" THEN frames
    ELSE Unwind(chain, SubSeq(frames, 1, Len(frames) - 1))

Panic(c, v) ==
    [c EXCEPT !.panic = v, !.pc = "panic",
              !.frames = Unwind(c.chain, SubSeq(@, 1, Len(@) - 1))]

\* engine.ServeHTTP: a reset context for the request with the handlers of
\* its route, then c.Next()
Start(id, req, chain) ==
    Next_([IdleCtx EXCEPT !.id = id, !.req = req, !.orig = req, !.status = defaultStatus,
                          !.chain = chain])

NewCtx(id, req) == Start(id, req, Chain)

\* c.IsAborted()
IsAborted(c) == c.index >= abortIndex

\* c.Errors.ByType(gin.ErrorTypePrivate).String(): "Error #01: <text>\n" per error
Digit(i) == CASE i = 0 -> "0" [] i = 1 -> "1" [] i = 2 -> "2" [] i = 3 -> "3" [] i = 4 -> "4"
              [] i = 5 -> "5" [] i = 6 -> "6" [] i = 7 -> "7" [] i = 8 -> "8" [] OTHER -> "9"

RECURSIVE ErrorsString(_, _)
ErrorsString(errors, i) ==
    IF i > Len(errors) THEN ""
    ELSE "Error #" \o Digit((i \div 10) % 10) \o Digit(i % 10) \o ": "
           \o ErrorText(errors[i]).s \o "\n" \o ErrorsString(errors, i + 1)

\* DumpRequest that hands back the bytes written before dumping failed
PartialDumpRequest(req, ok) ==
    req.method \o " " \o req.path
      \o (IF ok THEN (IF req.query = "" THEN "" ELSE "?" \o req.query)
                       \o " HTTP/1.1\nUser-Agent: " \o req.ua \o "\n"
           ELSE "")

\* httputil.DumpRequest(c.Request, false): the request line and headers, or
\* no bytes when dumping fails (the error is dropped at line 209)
DumpRequest(req, ok) ==
    IF ok
    THEN req.method \o " " \o req.path
           \o (IF req.query = "" THEN "" ELSE "?" \o req.query)
           \o " HTTP/1.1\nUser-Agent: " \o req.ua \o "\n"
    ELSE ""

\* debug.Stack()
DebugStack == "goroutine 1 [running]:\nruntime/debug.Stack()"

\* ---------------------------------------------------------- log entries
\* Each entry carries the id of the request whose goroutine emitted it (rid);
\* level, msg and fields are what zap receives.
\* InfoEntry whose path and query are those of a variable that all requests
\* share (declared outside the handler function), here the first worker's
SharedInfoEntry(c, cost) ==
    [rid |-> c.id, level |-> "info", msg |-> ctx[1].path,
     fields |-> [status |-> c.status, method |-> c.req.method, path |-> ctx[1].path,
                 query |-> ctx[1].query, ip |-> c.req.ip, userAgent |-> c.req.ua,
                 errors |-> ErrorsString(c.errors, 1), cost |-> cost]]

\* InfoEntry that reads the path and the query from the request when it
\* logs, after c.Next()
LateInfoEntry(c, cost) ==
    [rid |-> c.id, level |-> "info", msg |-> c.req.path,
     fields |-> [status |-> c.status, method |-> c.req.method, path |-> c.req.path,
                 query |-> c.req.query, ip |-> c.req.ip, userAgent |-> c.req.ua,
                 errors |-> ErrorsString(c.errors, 1), cost |-> cost]]

\* lines 180-189
InfoEntry(c, cost) ==
    [rid |-> c.id, level |-> "info", msg |-> c.path,
     fields |-> [status |-> c.status, method |-> c.req.method, path |-> c.path,
                 query |-> c.query, ip |-> c.req.ip, userAgent |-> c.req.ua,
                 errors |-> ErrorsString(c.errors, 1), cost |-> cost]]

\* BrokenPipeEntry that attaches the stack when the flag is set
BrokenPipeEntryWithStack(c, err, httpRequest) ==
    [rid |-> c.id, level |-> "error", msg |-> c.req.path,
     fields |-> IF stack
                THEN [error |-> err, request |-> httpRequest, stack |-> DebugStack]
                ELSE [error |-> err, request |-> httpRequest]]

\* lines 211-214
BrokenPipeEntry(c, err, httpRequest) ==
    [rid |-> c.id, level |-> "error", msg |-> c.req.path,
     fields |-> [error |-> err, request |-> httpRequest]]

\* PanicEntry that attaches the stack whatever the flag says
PanicEntryWithStack(c, err, httpRequest, withStack) ==
    [rid |-> c.id, level |-> "error", msg |-> "[Recovery from panic]",
     fields |-> [error |-> err, request |-> httpRequest, stack |-> DebugStack]]

\* lines 221-232
PanicEntry(c, err, httpRequest, withStack) ==
    [rid |-> c.id, level |-> "error", msg |-> "[Recovery from panic]",
     fields |-> IF withStack
                THEN [error |-> err, request |-> httpRequest, stack |-> DebugStack]
                ELSE [error |-> err, request |-> httpRequest]]

\* ------------------------------------------------------- classification
\* BrokenPipe that compares the message as it is, without strings.ToLower
CaseSensitiveBrokenPipe(err) ==
    IF err.kind = "OpError"
    THEN IF err.isNil THEN [fault |-> TRUE, brokenPipe |-> FALSE]
         ELSE IF err.Err.kind = "SyscallError"
              THEN LET se == ErrorText(err.Err)
                   IN  IF se.fault THEN [fault |-> TRUE, brokenPipe |-> FALSE]
                       ELSE [fault |-> FALSE,
                             brokenPipe |-> Contains(se.s, "broken pipe")
                                         \/ Contains(se.s, "connection reset by peer")]
              ELSE [fault |-> FALSE, brokenPipe |-> FALSE]
    ELSE [fault |-> FALSE, brokenPipe |-> FALSE]

\* BrokenPipe that looks for the two phrases in the message of the raised
\* value itself
MessageBrokenPipe(err) ==
    IF IsError(err)
    THEN LET e == ErrorText(err)
         IN  IF e.fault THEN [fault |-> TRUE, brokenPipe |-> FALSE]
             ELSE [fault |-> FALSE,
                   brokenPipe |-> Contains(ToLower(e.s), "broken pipe")
                               \/ Contains(ToLower(e.s), "connection reset by peer")]
    ELSE [fault |-> FALSE, brokenPipe |-> FALSE]

\* lines 200-207: brokenPipe, or a fault where the code dereferences a nil
\* pointer (ne.Err at line 202, se.Error() at line 203)
BrokenPipe(err) ==
    IF err.kind = "OpError"
    THEN IF err.isNil THEN [fault |-> TRUE, brokenPipe |-> FALSE]
         ELSE IF err.Err.kind = "SyscallError"
              THEN LET se == ErrorText(err.Err)
                   IN  IF se.fault THEN [fault |-> TRUE, brokenPipe |-> FALSE]
                       ELSE [fault |-> FALSE,
                             brokenPipe |-> Contains(ToLower(se.s), "broken pipe")
                                         \/ Contains(ToLower(se.s), "connection reset by peer")]
              ELSE [fault |-> FALSE, brokenPipe |-> FALSE]
    ELSE [fault |-> FALSE, brokenPipe |-> FALSE]

\* recover() whose result is taken for a fault also when nothing panicked
RecoverAlways(raised) ==
    IF raised = NoPanic \/ raised = NilValue THEN {PanicNilError} ELSE {raised}

\* recover(): the value of the panic in flight; for panic(nil) it is nil up to
\* Go 1.20 and a *runtime.PanicNilError from Go 1.21 on
Recover(raised) ==
    IF raised = NilValue THEN {NilValue, PanicNilError} ELSE {raised}

\* c.Abort() that leaves the index alone
AbortIgnored(c) == c

\* c.Abort()
Abort(c) == [c EXCEPT !.index = abortIndex]

\* AbortWithStatus that forgets the status
AbortWithoutStatus(c, code) == Abort(c)

\* c.AbortWithStatus(code): c.Status(code), c.Writer.WriteHeaderNow(), c.Abort().
\* c.Writer.Status() answers code from then on, also when the handler had
\* written the header before (gin then only warns).
AbortWithStatus(c, code) == Abort([c EXCEPT !.status = code, !.written = TRUE])

\* c.Error that attaches nothing to the context
ErrorDropped(c, err) == c

\* c.Error(err): append to c.Errors
Error(c, err) == [c EXCEPT !.errors = Append(@, err)]

\* What the serving loop sees when the chain ends: it returned, or a panic
\* came out of it (net/http recovers that one and drops the connection).
Outcome(how, c) == [outcome |-> how, c |-> c]

\* ---------------------------------------------------------------- actions
Init ==
    /\ stack \in BOOLEAN
    /\ clock = 0
    /\ nextId = 0
    /\ ctx = [w \in Workers |-> IdleCtx]
    /\ log = <<>>
    /\ served = <<>>

\* r.Run(): the host admits a request and starts its chain on a goroutine of
\* its own.
Serve(w, req) ==
    /\ ctx[w].pc = "idle"
    /\ nextId' = nextId + 1
    /\ ctx' = [ctx EXCEPT ![w] = NewCtx(nextId + 1, req)]
    /\ UNCHANGED <<stack, clock, log, served>>

\* The goroutine goes on with context c, unless the chain has ended: it
\* returned to the host, or a panic came out of it (net/http recovers that
\* one, drops the connection and goes on serving).
Continue(w, c) ==
    IF c.frames = <<>> /\ c.pc \in {"post", "panic"}
    THEN /\ served' = served @@ (c.id :>
                          Outcome(IF c.pc = "panic" THEN "panicked" ELSE "returned", c))
         /\ ctx' = [ctx EXCEPT ![w] = IdleCtx]
    ELSE /\ ctx' = [ctx EXCEPT ![w] = c]
         /\ UNCHANGED served

\* GinLogger up to its c.Next() (lines 174-177)
GinLogger(w) ==
    /\ ctx[w].pc = "enter" /\ Top(ctx[w]) = "GinLogger"
    /\ LET c == ctx[w]
       IN  ctx' = [ctx EXCEPT ![w] =
                     Next_([c EXCEPT !.timed = TRUE, !.start = clock, !.path = c.req.path,
                                     !.query = c.req.query])]
    /\ UNCHANGED <<stack, clock, nextId, log, served>>

\* GinRecovery up to its c.Next() (lines 195-196 and 236): the deferred
\* function is installed first
GinRecovery(w) ==
    /\ ctx[w].pc = "enter" /\ Top(ctx[w]) = "GinRecovery"
    /\ ctx' = [ctx EXCEPT ![w] = Next_([@ EXCEPT !.guard = "armed", !.arms = @ + 1])]
    /\ UNCHANGED <<stack, clock, nextId, log, served>>

\* What the route handler does to the context before it returns or panics
\* (c.String at line 161 is the "String" case).
Effects(c, h) ==
    LET c1 == CASE h.write = "Status" -> [c EXCEPT !.status = 404]
                [] h.write = "String" ->
                      [c EXCEPT !.status = 200, !.written = TRUE, !.body = @ \o "hello!"]
                [] OTHER -> c
        c2 == IF h.addErr THEN Error(c1, HandlerError) ELSE c1
    IN  IF h.rewrite
        THEN [c2 EXCEPT !.req = [@ EXCEPT !.path = "/internal", !.query = "v=2"]]
        ELSE c2

\* The route handler (lines 160-162, any handler in its place): it returns
\* to the c.Next() that called it, or panics.
Handler(w, h) ==
    /\ ctx[w].pc = "enter" /\ Top(ctx[w]) = "handler"
    /\ LET c == Effects(ctx[w], h)
           d == [c EXCEPT !.raised = h.raise, !.handled = @ + 1,
                          !.atExit = [status |-> c.status, written |-> c.written,
                                      body |-> c.body, errors |-> c.errors,
                                      index |-> c.index]]
       IN  Continue(w, IF h.raise = NoPanic THEN Return(d) ELSE Panic(d, h.raise))
    /\ UNCHANGED <<stack, clock, nextId, log>>

\* GinRecovery is left: normally, its caller going on, or by a panic of the
\* deferred function itself (the nil dereference of lines 202-203).
Close(c, class) == [c EXCEPT !.class = class, !.guard = "closed", !.panic = NoPanic]

\* the value of a run-time panic (a nil pointer dereference, a failed type
\* assertion)
NilDereference == [kind |-> "runtimeError"]

\* The deferred function of GinRecovery (lines 196-235), which runs when
\* GinRecovery returns and when a panic unwinds into it. ok: whether
\* httputil.DumpRequest succeeds.
Deferred(w, ok) ==
    /\ ctx[w].pc \in {"post", "panic"} /\ Top(ctx[w]) = "GinRecovery"
    /\ \E err \in Recover(ctx[w].panic) :
         LET c == ctx[w]
             \* line 197: err != nil
             c1 == [c EXCEPT !.runs = @ + 1]
             \* line 209
             httpRequest == DumpRequest(c.req, ok)
             c2 == [c1 EXCEPT !.dump = IF ok THEN "ok" ELSE "failed"]
         IN  IF err = NoPanic \/ err = NilValue
             THEN \* line 197: err == nil
                  /\ Continue(w, Return(Close(c, IF c.panic = NoPanic THEN "Clean"
                                                  ELSE "Unclassified")))
                  /\ UNCHANGED log
             ELSE IF BrokenPipe(err).fault
             THEN \* lines 202-203 panic anew; nothing below them runs
                  /\ Continue(w, Panic(Close(c1, "Fault"), NilDereference))
                  /\ UNCHANGED log
             ELSE IF BrokenPipe(err).brokenPipe
             THEN \* lines 210-219; err.(error) at line 216 panics when err is
                  \* no error
                  /\ log' = Append(log, BrokenPipeEntry(c, err, httpRequest))
                  /\ IF IsError(err)
                     THEN Continue(w, Return(Close(Abort(Error(c2, err)), "BrokenConnection")))
                     ELSE Continue(w, Panic(Close(c2, "Fault"), NilDereference))
             ELSE \* lines 221-233
                  /\ log' = Append(log, PanicEntry(c, err, httpRequest, stack))
                  /\ Continue(w, Return(Close(AbortWithStatus(c2, StatusInternalServerError),
                                               "Generic")))
    /\ UNCHANGED <<stack, clock, nextId>>

\* Since with the operands exchanged
SinceReversed(start) == start - clock

\* time.Since(start)
Since(start) == clock - start

\* GinLoggerPost that does not wait for c.Next(): it emits the entry while
\* the rest of the chain is still running
ImpatientGinLoggerPost(w) ==
    /\ ctx[w].timed /\ ctx[w].pc \in {"enter", "post", "panic"}
    /\ \A i \in DOMAIN log : log[i].rid # ctx[w].id \/ log[i].level # "info"
    /\ log' = Append(log, InfoEntry(ctx[w], Since(ctx[w].start)))
    /\ UNCHANGED <<stack, clock, nextId, ctx, served>>

\* GinLogger after its c.Next() (lines 179-189)
GinLoggerPost(w) ==
    /\ ctx[w].pc = "post" /\ Top(ctx[w]) = "GinLogger"
    /\ LET c == ctx[w]
           cost == Since(c.start)
       IN  /\ log' = Append(log, InfoEntry(c, cost))
           /\ Continue(w, Return(c))
    /\ UNCHANGED <<stack, clock, nextId>>

\* time passes
Tick ==
    /\ clock < MaxClock
    /\ clock' = clock + 1
    /\ UNCHANGED <<stack, nextId, ctx, log, served>>

\* ---------------------------------------------------------- specifications
\* Several requests, in sequence and in flight together, each handled by the
\* handler of its route.
ServeRequest(w) == nextId < MaxRequests /\ \E req \in Requests : Serve(w, req)
RunHandler(w) == Handler(w, Routes(ctx[w].orig.path))
RunDeferred(w) == Deferred(w, TRUE)

Next ==
    \E w \in Workers :
        \/ ServeRequest(w)
        \/ GinLogger(w)
        \/ GinRecovery(w)
        \/ RunHandler(w)
        \/ RunDeferred(w)
        \/ GinLoggerPost(w)

Spec == Init /\ [][Next]_vars

\* One request, with every behaviour of the handler, every raised value and
\* both results of dumping the request, while time passes.
ServeFirst == nextId = 0 /\ \E req \in Requests : Serve(1, req)
RunAnyHandler == \E h \in AllBehaviours : Handler(1, h)
RunAnyDeferred == \E ok \in BOOLEAN : Deferred(1, ok)

NextSingle ==
    \/ ServeFirst
    \/ GinLogger(1)
    \/ GinRecovery(1)
    \/ RunAnyHandler
    \/ RunAnyDeferred
    \/ GinLoggerPost(1)
    \/ Tick

SpecSingle == Init /\ [][NextSingle]_vars

\* One request for a route with two handlers, the second of which runs when
\* the first returns and the chain is not aborted.
ChainBehaviours ==
    { Behaviour(wr, ae, FALSE, r) :
        wr \in {"none", "Status", "String"}, ae \in BOOLEAN,
        r \in {NoPanic, StringValue("boom"), BrokenPipeError, NilValue, NilOpError} }

ServeChained ==
    /\ nextId = 0 /\ ctx[1].pc = "idle"
    /\ nextId' = 1
    /\ \E req \in Requests : ctx' = [ctx EXCEPT ![1] = Start(1, req, TwoHandlerChain)]
    /\ UNCHANGED <<stack, clock, log, served>>

RunChainedHandler == \E h \in ChainBehaviours : Handler(1, h)

NextChain ==
    \/ ServeChained
    \/ GinLogger(1)
    \/ GinRecovery(1)
    \/ RunChainedHandler
    \/ RunAnyDeferred
    \/ GinLoggerPost(1)

SpecChain == Init /\ [][NextChain]_vars

\* SpecSingle on a goroutine that is scheduled: GinLogger goes on once its
\* c.Next() has returned. The route handler may never return, and the host
\* need not admit a request.
SpecSingleFair == SpecSingle /\ WF_vars(GinLoggerPost(1))

\* ------------------------------------------------------------ properties
\* the positions in the log of the entries of a level that request id emitted
Entries(id, level) == {i \in DOMAIN log : log[i].rid = id /\ log[i].level = level}

\* the context of an admitted request, in flight or served
CtxOf(id) ==
    IF id \in DOMAIN served THEN served[id].c
    ELSE ctx[CHOOSE w \in Workers : ctx[w].id = id]

\* the requests that GinRecovery has let go of
Closed == {id \in 1..nextId : CtxOf(id).guard = "closed"}

\* C1: every request whose chain has ended has exactly one info entry and at
\* most one error entry, none when its handler did not panic; no request ever
\* has two entries of a level.
C1_OneInfoEntryPerRequest ==
    /\ \A id \in DOMAIN served :
         /\ Cardinality(Entries(id, "info")) = 1
         /\ served[id].c.raised = NoPanic => Entries(id, "error") = {}
    /\ \A id \in 1..nextId :
         /\ Cardinality(Entries(id, "info")) <= 1
         /\ Cardinality(Entries(id, "error")) <= 1

\* C2 as stated: GinRecovery is the outer interceptor: whenever GinLogger has
\* read its start time the guard is installed already, and the info entry of a
\* request precedes its error entry.
C2_RecoveryOutermost ==
    /\ \A w \in Workers : ctx[w].timed => ctx[w].guard # "none"
    /\ \A i, j \in DOMAIN log :
         (log[i].rid = log[j].rid /\ log[i].level = "info" /\ log[j].level = "error")
            => i < j

\* C2 as amended: GinLogger is the outer interceptor: whenever the guard is
\* installed GinLogger has read its start time already, the error entry of a
\* request precedes its info entry, and the info entry is emitted only after
\* GinRecovery has closed.
C2_LoggerOutermost ==
    /\ \A w \in Workers : ctx[w].guard # "none" => ctx[w].timed
    /\ \A i, j \in DOMAIN log :
         (log[i].rid = log[j].rid /\ log[i].level = "error" /\ log[j].level = "info")
            => i < j
    /\ \A id \in 1..nextId :
         Entries(id, "info") # {} => CtxOf(id).guard = "closed"

\* a served request with an error entry and an info entry
C2_Witness ==
    \E id \in DOMAIN served :
        /\ Entries(id, "error") # {} /\ Entries(id, "info") # {}
        /\ served[id].c.class = "Generic"

\* C3: no panic comes out of the chain, whatever the handler raised, and what
\* a request ends with depends on that request alone: two served requests
\* that were admitted alike end alike.
C3_FaultAbsorbed ==
    /\ \A id \in DOMAIN served : served[id].outcome = "returned"
    /\ \A a, b \in DOMAIN served :
         served[a].c.orig = served[b].c.orig =>
            /\ served[a].outcome = served[b].outcome
            /\ served[a].c.status = served[b].c.status
            /\ served[a].c.errors = served[b].c.errors
            /\ served[a].c.class = served[b].c.class

\* the one entry of a level that request id emitted
EntryOf(id, level) == log[CHOOSE i \in Entries(id, level) : TRUE]

\* C4: a served request whose fault was classified Generic has exactly one
\* error entry, with the message "[Recovery from panic]", its final status is
\* 500, and its chain returned to the host, which goes on serving.
C4_GenericFault ==
    \A id \in DOMAIN served :
        served[id].c.class = "Generic" =>
            /\ Cardinality(Entries(id, "error")) = 1
            /\ EntryOf(id, "error").msg = "[Recovery from panic]"
            /\ served[id].c.status = StatusInternalServerError
            /\ served[id].outcome = "returned"
            /\ served[id].c.panic = NoPanic

\* a Generic fault was served, and a request admitted later was served too
C4_Witness ==
    \E a, b \in DOMAIN served :
        /\ a < b
        /\ served[a].c.class = "Generic" /\ served[a].c.atExit.status # StatusInternalServerError
        /\ served[b].outcome = "returned"
        /\ \E i \in Entries(a, "info"), j \in Entries(b, "info") : i < j

\* the raised values with the signature of a broken connection
BrokenSignatures == {BrokenPipeError, ResetError, UpperCaseError}

\* C5: a request whose handler raised a value with the broken-connection
\* signature is classified BrokenConnection, and GinRecovery leaves the
\* response (status, header, body) as the handler left it.
C5_BrokenConnection ==
    \A id \in Closed :
        LET c == CtxOf(id)
        IN  c.raised \in BrokenSignatures =>
                /\ c.class = "BrokenConnection"
                /\ c.status = c.atExit.status
                /\ c.written = c.atExit.written
                /\ c.body = c.atExit.body

\* a broken pipe in upper case, raised before anything was written
C5_Witness ==
    \E id \in DOMAIN served :
        /\ served[id].c.raised = UpperCaseError
        /\ served[id].c.class = "BrokenConnection"
        /\ ~served[id].c.written

\* C6: a served request whose handler returned has exactly one info entry,
\* with a cost >= 0 and with the status the handler left in the response,
\* which is the final one.
C6_InfoEntry ==
    \A id \in DOMAIN served :
        served[id].c.raised = NoPanic =>
            /\ Cardinality(Entries(id, "info")) = 1
            /\ EntryOf(id, "info").fields.cost >= 0
            /\ EntryOf(id, "info").fields.status = served[id].c.status
            /\ EntryOf(id, "info").fields.status = served[id].c.atExit.status

\* a request whose handler set 404 and took time
C6_Witness ==
    \E id \in DOMAIN served :
        /\ served[id].c.raised = NoPanic
        /\ Entries(id, "info") # {}
        /\ EntryOf(id, "info").fields.status = 404
        /\ EntryOf(id, "info").fields.cost > 0

\* the positions in the log of the error entries of Generic faults
GenericEntries ==
    {i \in DOMAIN log : log[i].level = "error" /\ CtxOf(log[i].rid).class = "Generic"}

\* C7: an error entry of a Generic fault has a stack field exactly when
\* GinRecovery was built with stack = TRUE.
C7_StackByFlag ==
    \A i \in GenericEntries : ("stack" \in DOMAIN log[i].fields) <=> stack

\* two Generic faults in a row, logged without a stack
C7_Witness ==
    /\ ~stack
    /\ Cardinality(GenericEntries) >= 2
    /\ \A i \in GenericEntries : "stack" \notin DOMAIN log[i].fields

\* C8: a request whose fault was classified BrokenConnection has exactly one
\* error entry; its message is the path of the request, its fields are the
\* raised value and the dump of the request (empty when dumping failed), and
\* nothing else, whatever the stack flag.
C8_BrokenPipeEntry ==
    \A id \in Closed :
        LET c == CtxOf(id)
        IN  c.class = "BrokenConnection" =>
                /\ Cardinality(Entries(id, "error")) = 1
                /\ EntryOf(id, "error").msg = c.req.path
                /\ DOMAIN EntryOf(id, "error").fields = {"error", "request"}
                /\ EntryOf(id, "error").fields.error = c.raised
                /\ EntryOf(id, "error").fields.request
                      \in {DumpRequest(c.req, TRUE), DumpRequest(c.req, FALSE)}

\* a broken connection handled by a GinRecovery built with stack = TRUE
C8_Witness ==
    /\ stack
    /\ \E id \in DOMAIN served :
          /\ served[id].c.class = "BrokenConnection"
          /\ Entries(id, "error") # {}
          /\ EntryOf(id, "error").fields.request # ""

\* C9: every entry holds the data of the request that emitted it and of no
\* other: the method, path, query, address and agent it was admitted with,
\* its own status and accumulated errors, the value its own handler raised
\* and the dump of its own request.
C9_NoCrossContamination ==
    \A i \in DOMAIN log :
        LET e == log[i]
            c == CtxOf(e.rid)
        IN  IF e.level = "info"
            THEN /\ e.msg = c.orig.path
                 /\ e.fields.path = c.orig.path
                 /\ e.fields.query = c.orig.query
                 /\ e.fields.method = c.orig.method
                 /\ e.fields.ip = c.orig.ip
                 /\ e.fields.userAgent = c.orig.ua
                 /\ e.fields.status = c.status
                 /\ e.fields.errors = ErrorsString(c.errors, 1)
            ELSE /\ e.msg \in {c.orig.path, "[Recovery from panic]"}
                 /\ e.fields.error = c.raised
                 /\ e.fields.request = DumpRequest(c.orig, TRUE)

\* two requests in flight together, one of them faulting, whose entries are
\* interleaved in the log
C9_Witness ==
    \E i, j, k \in DOMAIN log :
        /\ i < j /\ j < k
        /\ log[i].rid = log[k].rid /\ log[j].rid # log[i].rid
        /\ log[i].level = "error" /\ log[j].level = "info"
        /\ CtxOf(log[i].rid).orig # CtxOf(log[j].rid).orig

\* C10: when the handler returned, GinRecovery leaves no trace: no error
\* entry, the status, header, body and accumulated errors as the handler left
\* them, and the chain not aborted.
C10_NoOpOnReturn ==
    \A id \in Closed :
        LET c == CtxOf(id)
        IN  c.raised = NoPanic =>
                /\ Entries(id, "error") = {}
                /\ c.status = c.atExit.status
                /\ c.written = c.atExit.written
                /\ c.body = c.atExit.body
                /\ c.errors = c.atExit.errors
                /\ ~IsAborted(c)
                /\ c.class = "Clean"

\* a handler that set a status and recorded an error, then returned
C10_Witness ==
    \E id \in DOMAIN served :
        /\ served[id].c.raised = NoPanic
        /\ served[id].c.status = 404
        /\ served[id].c.errors # <<>>
\* C11: a request that GinRecovery closed as a broken connection has the
\* raised error appended exactly once to the errors its handler had attached,
\* is aborted, and keeps the status, the written flag and the body its handler
\* left; the errors field of its info entry is the text of those errors and
\* contains the text of the raised error.
C11_BrokenConnectionError ==
    \A id \in Closed :
      LET c == CtxOf(id) IN
      c.class = "BrokenConnection" =>
        /\ c.errors = Append(c.atExit.errors, c.raised)
        /\ IsAborted(c)
        /\ c.status = c.atExit.status
        /\ c.written = c.atExit.written
        /\ c.body = c.atExit.body
        /\ \A i \in Entries(id, "info") :
             /\ log[i].fields.errors = ErrorsString(Append(c.atExit.errors, c.raised), 1)
             /\ Contains(log[i].fields.errors, ErrorText(c.raised).s)
             /\ log[i].fields.status = c.atExit.status

\* a served broken-connection request whose handler had attached an error of
\* its own and set a status, with its info entry in the log
C11_Witness ==
    \E id \in DOMAIN served :
      LET c == served[id].c IN
      /\ c.class = "BrokenConnection"
      /\ c.raised = ResetError
      /\ c.atExit.errors = <<HandlerError>>
      /\ c.atExit.status # defaultStatus
      /\ \E i \in Entries(id, "info") :
           log[i].fields.errors = ErrorsString(<<HandlerError, ResetError>>, 1)

\* C12: GinRecovery goes Armed, then one of Clean, BrokenConnection and
\* Generic, then Closed, once per request: no route handler runs before the
\* guard is installed, the guard is installed once, a request whose chain has
\* ended is closed, a closed request is in exactly one of the three states,
\* Clean exactly when its handler raised nothing, and the body of the
\* deferred function's "if err != nil" ran once when the handler raised and
\* not at all when it returned.
C12_ArmedFaultedClosed ==
    \A id \in 1..nextId :
      LET c == CtxOf(id) IN
      /\ c.guard = "none" => c.handled = 0
      /\ c.guard = "armed" => c.class = "none" /\ c.runs = 0
      /\ c.arms <= 1
      /\ id \in DOMAIN served => c.guard = "closed"
      /\ c.guard = "closed" =>
           /\ c.arms = 1
           /\ c.class \in {"Clean", "BrokenConnection", "Generic"}
           /\ c.class = "Clean" <=> c.raised = NoPanic
           /\ c.runs = IF c.raised = NoPanic THEN 0 ELSE 1

\* the raised values without the signature: no *net.OpError (a string, an
\* error whose own message is "broken pipe"), a *net.OpError whose Err is no
\* *os.SyscallError (an error whose message is "broken pipe", no error at
\* all), and one whose *os.SyscallError names neither phrase
NonSignatures ==
    { StringValue("boom"), ErrorString("broken pipe"), ErrorString("invalid id"),
      NonSyscallError, NoCauseError, RefusedError }

C14_PathAtEntry ==
    \A id \in 1..nextId :
      \A i \in Entries(id, "info") :
        /\ log[i].msg = CtxOf(id).orig.path
        /\ log[i].fields.path = CtxOf(id).orig.path
        /\ log[i].fields.query = CtxOf(id).orig.query

\* a served request whose handler changed the path and the query of the URL,
\* with its info entry in the log
C14_Witness ==
    \E id \in DOMAIN served :
      LET c == served[id].c IN
      /\ c.req.path # c.orig.path
      /\ c.req.query # c.orig.query
      /\ \E i \in Entries(id, "info") : log[i].fields.path = "/upload"

\* C15: when DumpRequest fails in the deferred function, the function does
\* not panic: the request is closed as BrokenConnection or Generic with no
\* panic in flight, it has exactly one error entry, whose request field is
\* empty, and it is finalized as its class says (Generic: 500 and aborted;
\* BrokenConnection: the error attached, aborted, the status untouched); its
\* chain ends by returning.
C15_DumpFailure ==
    \A id \in 1..nextId :
      LET c == CtxOf(id) IN
      c.dump = "failed" =>
        /\ c.guard = "closed" /\ c.panic = NoPanic
        /\ c.class \in {"BrokenConnection", "Generic"}
        /\ Cardinality(Entries(id, "error")) = 1
        /\ EntryOf(id, "error").fields.request = ""
        /\ IsAborted(c)
        /\ c.class = "Generic" =>
             /\ c.status = StatusInternalServerError
             /\ EntryOf(id, "error").msg = "[Recovery from panic]"
        /\ c.class = "BrokenConnection" =>
             /\ c.status = c.atExit.status
             /\ c.errors = Append(c.atExit.errors, c.raised)
             /\ EntryOf(id, "error").msg = c.req.path
        /\ id \in DOMAIN served => served[id].outcome = "returned"

\* DumpRequest has failed for a served request of either class
C15_Witness ==
    \E id \in DOMAIN served :
      /\ served[id].c.dump = "failed"
      /\ served[id].c.class \in {"BrokenConnection", "Generic"}
      /\ served[id].c.raised \in {BrokenPipeError, StringValue("boom")}
      /\ EntryOf(id, "error").fields.request = ""

\* C16: once GinRecovery has absorbed a fault as BrokenConnection or Generic,
\* the chain is aborted and no handler registered after the one that raised
\* runs: the number of handlers that ran stays the position of the raising
\* one, and no handler is about to run; for Generic the status is 500, the
\* header is written and the body is what the raising handler left.
C16_ChainAborted ==
    \A id \in 1..nextId :
      LET c == CtxOf(id) IN
      c.class \in {"BrokenConnection", "Generic"} =>
        /\ IsAborted(c)
        /\ c.handled = c.atExit.index - 1
        /\ ~(c.pc = "enter" /\ Top(c) = "handler")
        /\ c.class = "Generic" =>
             /\ c.status = StatusInternalServerError
             /\ c.written
             /\ c.body = c.atExit.body

\* a served request for a route with two handlers whose first handler raised:
\* the fault was absorbed and one handler ran
C16_Witness ==
    \E id \in DOMAIN served :
      LET c == served[id].c IN
      /\ c.chain = TwoHandlerChain
      /\ c.class = "Generic"
      /\ c.atExit.index = 2
      /\ c.handled = 1
      /\ Entries(id, "info") # {}

\* a request in flight has no info entry
NoEntryInFlight ==
    \A w \in Workers : ctx[w].pc # "idle" => Entries(ctx[w].id, "info") = {}

\* the request's info entry is in the log
InfoEmitted == Entries(1, "info") # {}

\* GinLogger's c.Next() has returned
NextReturned == ctx[1].pc = "post" /\ Top(ctx[1]) = "GinLogger"

\* C17: GinLogger emits its entry only after its c.Next() has returned: a
\* request in flight has no info entry, however long its handler takes (time
\* passes freely while the handler is pending); and once c.Next() has
\* returned to GinLogger, the entry is eventually emitted.
C17_EntryAfterReturn ==
    /\ []NoEntryInFlight
    /\ NextReturned ~> InfoEmitted

\* the handler is still pending after all the time there is has passed since
\* GinLogger read the clock, and no info entry exists
C17_Witness ==
    /\ ctx[1].pc = "enter" /\ Top(ctx[1]) = "handler"
    /\ ctx[1].timed /\ ctx[1].start = 0 /\ clock = MaxClock
    /\ Entries(1, "info") = {}

\* C18: with GinLogger registered before GinRecovery, a request whose fault
\* was classified Generic has its error entry before its info entry: while it
\* is in flight it has the error entry and no info entry, and once served it
\* has one of each, the error entry first, and the status field of the info
\* entry is 500.
C18_ErrorBeforeInfo ==
    \A id \in 1..nextId :
      CtxOf(id).class = "Generic" =>
        /\ Cardinality(Entries(id, "error")) = 1
        /\ id \in DOMAIN served =>
             /\ Cardinality(Entries(id, "info")) = 1
             /\ \A i \in Entries(id, "error"), j \in Entries(id, "info") : i < j
             /\ EntryOf(id, "info").fields.status = StatusInternalServerError
        /\ id \notin DOMAIN served => Entries(id, "info") = {}

\* a served request whose handler had answered 200 before it panicked, with
\* both entries in the log and another request's entry between them
C18_Witness ==
    \E id \in DOMAIN served :
      /\ served[id].c.class = "Generic"
      /\ served[id].c.atExit.status = 200 /\ served[id].c.atExit.written
      /\ EntryOf(id, "info").fields.status = StatusInternalServerError
      /\ \E i \in Entries(id, "error"), j \in Entries(id, "info"), k \in DOMAIN log :
           i < k /\ k < j /\ log[k].rid # id

\* C19: the deferred function of GinRecovery never panics itself, whatever the
\* handler raised: no request is left by a panic of the classification, every
\* request that entered the body of "if err != nil" is closed as
\* BrokenConnection or Generic, and a request closed as BrokenConnection
\* raised an error, so that err.(error) at line 216 holds.
C19_NoSecondaryFault ==
    \A id \in 1..nextId :
      LET c == CtxOf(id) IN
      /\ c.class # "Fault"
      /\ c.runs > 0 => c.class \in {"BrokenConnection", "Generic"}
      /\ c.class = "BrokenConnection" => IsError(c.raised)
      /\ (id \in DOMAIN served /\ c.runs > 0) => served[id].outcome = "returned"

====
